---- MODULE Spec2Model ----
(***************************************************************************)
(* A model of the brainfuck virtual machine of src/src/program.rs:         *)
(* Program::compile (source text -> commands), Program::new (jump table    *)
(* and tape), Program::run (the fetch-execute loop) and Program::debug.    *)
(*                                                                         *)
(* Conventions.                                                            *)
(*  - A source text is a tuple of one-character strings.                   *)
(*  - Indices (pc, ptr, jump-table keys) are 0-based as in the code;       *)
(*    a TLA+ sequence is 1-based, so commands[pc] of the code is At(..).   *)
(*  - memory is vec![0; 30000]; the model keeps the cells that are not 0   *)
(*    (a function from their indices), every other cell of 0..TapeLen-1    *)
(*    reads 0.  SetCell keeps that form canonical, so two tapes are equal  *)
(*    exactly when the two functions are.                                  *)
(*  - ptr is a usize.  A value of the upper half of the usize range is     *)
(*    written as the negative number congruent to it modulo 2^64           *)
(*    (usize::MAX is -1), so that wrapping +1 and -1 are plain +1 and -1.  *)
(*  - u8 and usize arithmetic in the code is unchecked `+= 1` / `-= 1`:    *)
(*    a build with overflow checks (debug, test) panics on overflow, a     *)
(*    build without (release) wraps.  overflow_checks is that build flag.  *)
(***************************************************************************)
EXTENDS Integers, Sequences, FiniteSets, TLC

VARIABLES
  src,              \* the source text given to compile
  debug_pound,      \* compile's debug_pound argument
  overflow_checks,  \* the build: TRUE panics on integer overflow, FALSE wraps
  input,            \* the bytes the input reader holds
  calls,            \* how many times the caller calls run on the Program
  status,           \* where the program is: see Statuses
  commands,         \* Program.commands
  jmptable,         \* Program.jmptable
  memory,           \* Program.memory (the cells that are not 0)
  ptr,              \* run's ptr
  pc,               \* run's pc
  taken,            \* how many bytes run has taken from the input reader
  output,           \* the bytes the output writer has accepted
  sink,             \* the output writer: "vec", "open", or "full" (write returns Ok(0))
  diag,             \* what the latest debug() printed to stdout
  runs,             \* how many times run was called on this Program
  last,             \* the step run executed last, and the state before it
  twin              \* a second Program, built from the same text without comments

vars ==
  << src, debug_pound, overflow_checks, input, calls, status, commands, jmptable,
     memory, ptr, pc, taken, output, sink, diag, runs, last, twin >>

(***************************************************************************)
(* Bounds of the model and constants of the program.                       *)
(***************************************************************************)
MaxSrcLen == 3
MaxBrackets == 4
MaxInput == 2
MaxOut == 30
MaxRuns == 2
MaxRerunLen == 2
TapeLen == 30000
ByteMod == 256

Statuses ==
  { "source",       \* nothing done yet
    "compiled",     \* compile returned
    "constructed",  \* new returned a Program
    "running",      \* inside run's loop
    "ok",           \* run returned Ok(())
    "err",          \* run returned Err(io::Error)
    "panic" }       \* the thread panicked

CommandChars == { ">", "<", "+", "-", ".", ",", "[", "]" }
Alphabet == CommandChars \cup { "#", "x" }
InputBytes == { 1, 255 }

Texts(n) == UNION { [1..k -> Alphabet] : k \in 0..n }
BracketTexts == UNION { [1..k -> { "[", "]", "+" }] : k \in 0..MaxBrackets }
Streams(n) == UNION { [1..k -> InputBytes] : k \in 0..n }

HelloWorld ==
  <<
    "+", "+", "+", "+", "+", "+", "+", "+", "[", ">", "+", "+", "+", "+", "[", ">",
    "+", "+", ">", "+", "+", "+", ">", "+", "+", "+", ">", "+", "<", "<", "<", "<",
    "-", "]", ">", "+", ">", "+", ">", "-", ">", ">", "+", "[", "<", "]", "<", "-",
    "]", ">", ">", ".", ">", "-", "-", "-", ".", "+", "+", "+", "+", "+", "+", "+",
    ".", ".", "+", "+", "+", ".", ">", ">", ".", "<", "-", ".", "<", ".", "+", "+",
    "+", ".", "-", "-", "-", "-", "-", "-", ".", "-", "-", "-", "-", "-", "-", "-",
    "-", ".", ">", ">", "+", ".", ">", "+", "+", "."
  >>

HelloWorldCommented ==
  <<
    " ", "1", " ", "+", "+", "+", "+", "+", " ", "+", "+", "+", " ", " ", " ", " ",
    " ", " ", " ", " ", " ", " ", " ", " ", " ", " ", " ", "S", "e", "t", " ", "C",
    "e", "l", "l", " ", "#", "0", " ", "t", "o", " ", "8", "\n", " ", "2", " ", "[",
    "\n", " ", "3", " ", " ", " ", " ", " ", ">", "+", "+", "+", "+", " ", " ", " ",
    " ", " ", " ", " ", " ", " ", " ", " ", " ", " ", " ", " ", "A", "d", "d", " ",
    "4", " ", "t", "o", " ", "C", "e", "l", "l", " ", "#", "1", ";", " ", "t", "h",
    "i", "s", " ", "w", "i", "l", "l", " ", "a", "l", "w", "a", "y", "s", " ", "s",
    "e", "t", " ", "C", "e", "l", "l", " ", "#", "1", " ", "t", "o", " ", "4", "\n",
    " ", "4", " ", " ", " ", " ", " ", "[", " ", " ", " ", " ", " ", " ", " ", " ",
    " ", " ", " ", " ", " ", " ", " ", " ", " ", " ", " ", "a", "s", " ", "t", "h",
    "e", " ", "c", "e", "l", "l", " ", "w", "i", "l", "l", " ", "b", "e", " ", "c",
    "l", "e", "a", "r", "e", "d", " ", "b", "y", " ", "t", "h", "e", " ", "l", "o",
    "o", "p", "\n", " ", "5", " ", " ", " ", " ", " ", " ", " ", " ", " ", ">", "+",
    "+", " ", " ", " ", " ", " ", " ", " ", " ", " ", " ", " ", " ", " ", "A", "d",
    "d", " ", "4", "*", "2", " ", "t", "o", " ", "C", "e", "l", "l", " ", "#", "2",
    "\n", " ", "6", " ", " ", " ", " ", " ", " ", " ", " ", " ", ">", "+", "+", "+",
    " ", " ", " ", " ", " ", " ", " ", " ", " ", " ", " ", " ", "A", "d", "d", " ",
    "4", "*", "3", " ", "t", "o", " ", "C", "e", "l", "l", " ", "#", "3", "\n", " ",
    "7", " ", " ", " ", " ", " ", " ", " ", " ", " ", ">", "+", "+", "+", " ", " ",
    " ", " ", " ", " ", " ", " ", " ", " ", " ", " ", "A", "d", "d", " ", "4", "*",
    "3", " ", "t", "o", " ", "C", "e", "l", "l", " ", "#", "4", "\n", " ", "8", " ",
    " ", " ", " ", " ", " ", " ", " ", " ", ">", "+", " ", " ", " ", " ", " ", " ",
    " ", " ", " ", " ", " ", " ", " ", " ", "A", "d", "d", " ", "4", " ", "t", "o",
    " ", "C", "e", "l", "l", " ", "#", "5", "\n", " ", "9", " ", " ", " ", " ", " ",
    " ", " ", " ", " ", "<", "<", "<", "<", "-", " ", " ", " ", " ", " ", " ", " ",
    " ", " ", " ", " ", "D", "e", "c", "r", "e", "m", "e", "n", "t", " ", "t", "h",
    "e", " ", "l", "o", "o", "p", " ", "c", "o", "u", "n", "t", "e", "r", " ", "i",
    "n", " ", "C", "e", "l", "l", " ", "#", "1", "\n", "1", "0", " ", " ", " ", " ",
    " ", "]", " ", " ", " ", " ", " ", " ", " ", " ", " ", " ", " ", " ", " ", " ",
    " ", " ", " ", " ", " ", "L", "o", "o", "p", " ", "t", "i", "l", "l", " ", "C",
    "e", "l", "l", " ", "#", "1", " ", "i", "s", " ", "z", "e", "r", "o", "\n", "1",
    "1", " ", " ", " ", " ", " ", ">", "+", " ", " ", " ", " ", " ", " ", " ", " ",
    " ", " ", " ", " ", " ", " ", " ", " ", " ", " ", "A", "d", "d", " ", "1", " ",
    "t", "o", " ", "C", "e", "l", "l", " ", "#", "2", "\n", "1", "2", " ", " ", " ",
    " ", " ", ">", "+", " ", " ", " ", " ", " ", " ", " ", " ", " ", " ", " ", " ",
    " ", " ", " ", " ", " ", " ", "A", "d", "d", " ", "1", " ", "t", "o", " ", "C",
    "e", "l", "l", " ", "#", "3", "\n", "1", "3", " ", " ", " ", " ", " ", ">", "-",
    " ", " ", " ", " ", " ", " ", " ", " ", " ", " ", " ", " ", " ", " ", " ", " ",
    " ", " ", "S", "u", "b", "t", "r", "a", "c", "t", " ", "1", " ", "f", "r", "o",
    "m", " ", "C", "e", "l", "l", " ", "#", "4", "\n", "1", "4", " ", " ", " ", " ",
    " ", ">", ">", "+", " ", " ", " ", " ", " ", " ", " ", " ", " ", " ", " ", " ",
    " ", " ", " ", " ", " ", "A", "d", "d", " ", "1", " ", "t", "o", " ", "C", "e",
    "l", "l", " ", "#", "6", "\n", "1", "5", " ", " ", " ", " ", " ", "[", "<", "]",
    " ", " ", " ", " ", " ", " ", " ", " ", " ", " ", " ", " ", " ", " ", " ", " ",
    " ", "M", "o", "v", "e", " ", "b", "a", "c", "k", " ", "t", "o", " ", "t", "h",
    "e", " ", "f", "i", "r", "s", "t", " ", "z", "e", "r", "o", " ", "c", "e", "l",
    "l", " ", "y", "o", "u", " ", "f", "i", "n", "d", ";", " ", "t", "h", "i", "s",
    " ", "w", "i", "l", "l", "\n", "1", "6", " ", " ", " ", " ", " ", " ", " ", " ",
    " ", " ", " ", " ", " ", " ", " ", " ", " ", " ", " ", " ", " ", " ", " ", " ",
    " ", "b", "e", " ", "C", "e", "l", "l", " ", "#", "1", " ", "w", "h", "i", "c",
    "h", " ", "w", "a", "s", " ", "c", "l", "e", "a", "r", "e", "d", " ", "b", "y",
    " ", "t", "h", "e", " ", "p", "r", "e", "v", "i", "o", "u", "s", " ", "l", "o",
    "o", "p", "\n", "1", "7", " ", " ", " ", " ", " ", "<", "-", " ", " ", " ", " ",
    " ", " ", " ", " ", " ", " ", " ", " ", " ", " ", " ", " ", " ", " ", "D", "e",
    "c", "r", "e", "m", "e", "n", "t", " ", "t", "h", "e", " ", "l", "o", "o", "p",
    " ", "C", "o", "u", "n", "t", "e", "r", " ", "i", "n", " ", "C", "e", "l", "l",
    " ", "#", "0", "\n", "1", "8", " ", "]", " ", " ", " ", " ", " ", " ", " ", " ",
    " ", " ", " ", " ", " ", " ", " ", " ", " ", " ", " ", " ", " ", " ", " ", "L",
    "o", "o", "p", " ", "t", "i", "l", "l", " ", "C", "e", "l", "l", " ", "#", "0",
    " ", "i", "s", " ", "z", "e", "r", "o", "\n", "1", "9", " ", "\n", "2", "0", " ",
    "T", "h", "e", " ", "r", "e", "s", "u", "l", "t", " ", "o", "f", " ", "t", "h",
    "i", "s", " ", "i", "s", ":", "\n", "2", "1", " ", "C", "e", "l", "l", " ", "N",
    "o", " ", ":", " ", " ", " ", "0", " ", " ", " ", "1", " ", " ", " ", "2", " ",
    " ", " ", "3", " ", " ", " ", "4", " ", " ", " ", "5", " ", " ", " ", "6", "\n",
    "2", "2", " ", "C", "o", "n", "t", "e", "n", "t", "s", ":", " ", " ", " ", "0",
    " ", " ", " ", "0", " ", " ", "7", "2", " ", "1", "0", "4", " ", " ", "8", "8",
    " ", " ", "3", "2", " ", " ", " ", "8", "\n", "2", "3", " ", "P", "o", "i", "n",
    "t", "e", "r", " ", ":", " ", " ", " ", "^", "\n", "2", "4", " ", "\n", "2", "5",
    " ", ">", ">", ".", " ", " ", " ", " ", " ", " ", " ", " ", " ", " ", " ", " ",
    " ", " ", " ", " ", " ", " ", " ", " ", " ", "C", "e", "l", "l", " ", "#", "2",
    " ", "h", "a", "s", " ", "v", "a", "l", "u", "e", " ", "7", "2", " ", "w", "h",
    "i", "c", "h", " ", "i", "s", " ", "'", "H", "'", "\n", "2", "6", " ", ">", "-",
    "-", "-", ".", " ", " ", " ", " ", " ", " ", " ", " ", " ", " ", " ", " ", " ",
    " ", " ", " ", " ", " ", " ", "S", "u", "b", "t", "r", "a", "c", "t", " ", "3",
    " ", "f", "r", "o", "m", " ", "C", "e", "l", "l", " ", "#", "3", " ", "t", "o",
    " ", "g", "e", "t", " ", "1", "0", "1", " ", "w", "h", "i", "c", "h", " ", "i",
    "s", " ", "'", "e", "'", "\n", "2", "7", " ", "+", "+", "+", "+", "+", " ", "+",
    "+", ".", ".", "+", "+", "+", ".", " ", " ", " ", " ", " ", " ", " ", " ", " ",
    " ", "L", "i", "k", "e", "w", "i", "s", "e", " ", "f", "o", "r", " ", "'", "l",
    "l", "o", "'", " ", "f", "r", "o", "m", " ", "C", "e", "l", "l", " ", "#", "3",
    "\n", "2", "8", " ", ">", ">", ".", " ", " ", " ", " ", " ", " ", " ", " ", " ",
    " ", " ", " ", " ", " ", " ", " ", " ", " ", " ", " ", " ", "C", "e", "l", "l",
    " ", "#", "5", " ", "i", "s", " ", "3", "2", " ", "f", "o", "r", " ", "t", "h",
    "e", " ", "s", "p", "a", "c", "e", "\n", "2", "9", " ", "<", "-", ".", " ", " ",
    " ", " ", " ", " ", " ", " ", " ", " ", " ", " ", " ", " ", " ", " ", " ", " ",
    " ", " ", " ", "S", "u", "b", "t", "r", "a", "c", "t", " ", "1", " ", "f", "r",
    "o", "m", " ", "C", "e", "l", "l", " ", "#", "4", " ", "f", "o", "r", " ", "8",
    "7", " ", "t", "o", " ", "g", "i", "v", "e", " ", "a", " ", "'", "W", "'", "\n",
    "3", "0", " ", "<", ".", " ", " ", " ", " ", " ", " ", " ", " ", " ", " ", " ",
    " ", " ", " ", " ", " ", " ", " ", " ", " ", " ", " ", "C", "e", "l", "l", " ",
    "#", "3", " ", "w", "a", "s", " ", "s", "e", "t", " ", "t", "o", " ", "'", "o",
    "'", " ", "f", "r", "o", "m", " ", "t", "h", "e", " ", "e", "n", "d", " ", "o",
    "f", " ", "'", "H", "e", "l", "l", "o", "'", "\n", "3", "1", " ", "+", "+", "+",
    ".", "-", "-", "-", "-", "-", " ", "-", ".", "-", "-", "-", "-", "-", " ", "-",
    "-", "-", ".", " ", " ", "C", "e", "l", "l", " ", "#", "3", " ", "f", "o", "r",
    " ", "'", "r", "l", "'", " ", "a", "n", "d", " ", "'", "d", "'", "\n", "3", "2",
    " ", ">", ">", "+", ".", " ", " ", " ", " ", " ", " ", " ", " ", " ", " ", " ",
    " ", " ", " ", " ", " ", " ", " ", " ", " ", "A", "d", "d", " ", "1", " ", "t",
    "o", " ", "C", "e", "l", "l", " ", "#", "5", " ", "g", "i", "v", "e", "s", " ",
    "u", "s", " ", "a", "n", " ", "e", "x", "c", "l", "a", "m", "a", "t", "i", "o",
    "n", " ", "p", "o", "i", "n", "t", "\n", "3", "3", " ", ">", "+", "+", ".", " ",
    " ", " ", " ", " ", " ", " ", " ", " ", " ", " ", " ", " ", " ", " ", " ", " ",
    " ", " ", " ", "A", "n", "d", " ", "f", "i", "n", "a", "l", "l", "y", " ", "a",
    " ", "n", "e", "w", "l", "i", "n", "e", " ", "f", "r", "o", "m", " ", "C", "e",
    "l", "l", " ", "#", "6"
  >>

ObscureTests ==
  <<
    "[", "]", "+", "+", "+", "+", "+", "+", "+", "+", "+", "+", "[", ">", ">", "+",
    ">", "+", ">", "+", "+", "+", "+", "+", "+", "[", "<", "<", "+", "<", "+", "+",
    "+", ">", ">", ">", "-", "]", "<", "<", "<", "<", "-", "]", "\n", "\"", "A", "*",
    "$", "\"", ";", "?", "@", "!", "[", "#", ">", ">", "+", "<", "<", "]", ">", "[",
    ">", ">", "]", "<", "<", "<", "<", "[", ">", "+", "+", "<", "[", "-", "]", "]",
    ">", ".", ">", "."
  >>

HelloWorldDebug == HelloWorld \o << "#" >>
Walker == << "+", "[", "-", ">", "+", "]" >>

TestSources == { HelloWorld, HelloWorldCommented, ObscureTests, HelloWorldDebug }
TapeSources == { Walker }

(***************************************************************************)
(* Helpers for the 0-based vectors and maps of the code.                   *)
(***************************************************************************)
At(seq, i) == seq[i + 1]
Min(a, b) == IF a < b THEN a ELSE b
Slice(seq, from, to) == [ k \in 1..(to - from) |-> seq[from + k] ]
Insert(table, k, v) ==
  [ x \in (DOMAIN table) \cup { k } |-> IF x = k THEN v ELSE table[x] ]
InBounds(p) == p >= 0 /\ p < TapeLen
Cell(mem, p) == IF p \in DOMAIN mem THEN mem[p] ELSE 0
SetCell(mem, p, v) ==
  IF v = 0
  THEN [ x \in (DOMAIN mem) \ { p } |-> mem[x] ]
  ELSE [ x \in (DOMAIN mem) \cup { p } |-> IF x = p THEN v ELSE mem[x] ]
ZeroTape == << >>

(***************************************************************************)
(* Program::compile.                                                       *)
(***************************************************************************)
\* A variant of the match that forgets debug_pound: '#' is always Debug.
CharCommandPoundAlways(c, dbg) ==
  CASE c = ">" -> "Right"
    [] c = "<" -> "Left"
    [] c = "+" -> "Inc"
    [] c = "-" -> "Dec"
    [] c = "." -> "Out"
    [] c = "," -> "In"
    [] c = "[" -> "JmpFwd"
    [] c = "]" -> "JmpBack"
    [] c = "#" -> "Debug"
    [] OTHER -> "continue"

\* A variant of the match with the arms of '.' and ',' exchanged.
CharCommandDotComma(c, dbg) ==
  CASE c = ">" -> "Right"
    [] c = "<" -> "Left"
    [] c = "+" -> "Inc"
    [] c = "-" -> "Dec"
    [] c = "." -> "In"
    [] c = "," -> "Out"
    [] c = "[" -> "JmpFwd"
    [] c = "]" -> "JmpBack"
    [] c = "#" -> IF dbg THEN "Debug" ELSE "continue"
    [] OTHER -> "continue"

CharCommand(c, dbg) ==
  CASE c = ">" -> "Right"
    [] c = "<" -> "Left"
    [] c = "+" -> "Inc"
    [] c = "-" -> "Dec"
    [] c = "." -> "Out"
    [] c = "," -> "In"
    [] c = "[" -> "JmpFwd"
    [] c = "]" -> "JmpBack"
    [] c = "#" -> IF dbg THEN "Debug" ELSE "continue"
    [] OTHER -> "continue"

\* for c in input.chars(): the command of c is pushed unless the arm is `continue`
compile(text, dbg) ==
  SelectSeq([ i \in 1..Len(text) |-> CharCommand(text[i], dbg) ],
            LAMBDA command : command # "continue")

(***************************************************************************)
(* Program::new: the jump table.  TableStep is one turn of the loop over   *)
(* commands.iter().enumerate(); jmps.pop().unwrap() panics on an empty     *)
(* stack, which ends the scan.  Positions left on the stack at the end are *)
(* dropped.  TableScan runs the turns lo .. hi-1 in order (it halves the   *)
(* range only to keep the evaluation shallow).                             *)
(***************************************************************************)
\* A variant of the turn that forgets table.insert(i, start).
TableStepOneWay(coms, i, st) ==
  IF st.panic THEN st
  ELSE CASE At(coms, i) = "JmpFwd" -> [ st EXCEPT !.jmps = Append(st.jmps, i) ]
         [] At(coms, i) = "JmpBack" ->
              IF st.jmps = << >>
              THEN [ st EXCEPT !.panic = TRUE ]
              ELSE LET start == st.jmps[Len(st.jmps)]
                   IN  [ st EXCEPT !.jmps = SubSeq(st.jmps, 1, Len(st.jmps) - 1),
                                   !.table = Insert(st.table, start, i) ]
         [] OTHER -> st

\* A variant of the turn that pairs JmpBack with the oldest pending JmpFwd.
TableStepOldestFirst(coms, i, st) ==
  IF st.panic THEN st
  ELSE CASE At(coms, i) = "JmpFwd" -> [ st EXCEPT !.jmps = Append(st.jmps, i) ]
         [] At(coms, i) = "JmpBack" ->
              IF st.jmps = << >>
              THEN [ st EXCEPT !.panic = TRUE ]
              ELSE LET start == st.jmps[1]
                   IN  [ st EXCEPT !.jmps = SubSeq(st.jmps, 2, Len(st.jmps)),
                                   !.table = Insert(Insert(st.table, start, i), i, start) ]
         [] OTHER -> st

TableStep(coms, i, st) ==
  IF st.panic THEN st
  ELSE CASE At(coms, i) = "JmpFwd" -> [ st EXCEPT !.jmps = Append(st.jmps, i) ]
         [] At(coms, i) = "JmpBack" ->
              IF st.jmps = << >>
              THEN [ st EXCEPT !.panic = TRUE ]
              ELSE LET start == st.jmps[Len(st.jmps)]
                   IN  [ st EXCEPT !.jmps = SubSeq(st.jmps, 1, Len(st.jmps) - 1),
                                   !.table = Insert(Insert(st.table, start, i), i, start) ]
         [] OTHER -> st

RECURSIVE TableScan(_, _, _, _)
TableScan(coms, lo, hi, st) ==
  IF hi <= lo THEN st
  ELSE IF hi = lo + 1 THEN TableStep(coms, lo, st)
  ELSE LET mid == (lo + hi) \div 2
           left == TableScan(coms, lo, mid, st)
       IN  IF left.panic THEN left ELSE TableScan(coms, mid, hi, left)

new(coms) ==
  TableScan(coms, 0, Len(coms), [ panic |-> FALSE, jmps |-> << >>, table |-> << >> ])

(***************************************************************************)
(* Program::run.  A machine m is a Program with run's registers and the    *)
(* reader and writer run was given.  Each operator below is one arm of     *)
(* the match on commands[pc]; a panic or an io::Error ends the run.        *)
(***************************************************************************)
Panic(m) == [ m EXCEPT !.status = "panic" ]
IoErr(m) == [ m EXCEPT !.status = "err" ]

\* Right => ptr += 1
Right(m) ==
  IF m.ptr = -1 /\ overflow_checks THEN Panic(m) ELSE [ m EXCEPT !.ptr = m.ptr + 1 ]

\* Left => ptr -= 1
Left(m) ==
  IF m.ptr = 0 /\ overflow_checks THEN Panic(m) ELSE [ m EXCEPT !.ptr = m.ptr - 1 ]

\* Inc => self.memory[ptr] += 1
Inc(m) ==
  IF ~InBounds(m.ptr) THEN Panic(m)
  ELSE IF Cell(m.memory, m.ptr) = ByteMod - 1
       THEN IF overflow_checks THEN Panic(m)
            ELSE [ m EXCEPT !.memory = SetCell(m.memory, m.ptr, 0) ]
       ELSE [ m EXCEPT !.memory = SetCell(m.memory, m.ptr, Cell(m.memory, m.ptr) + 1) ]

\* Dec => self.memory[ptr] -= 1
Dec(m) ==
  IF ~InBounds(m.ptr) THEN Panic(m)
  ELSE IF Cell(m.memory, m.ptr) = 0
       THEN IF overflow_checks THEN Panic(m)
            ELSE [ m EXCEPT !.memory = SetCell(m.memory, m.ptr, ByteMod - 1) ]
       ELSE [ m EXCEPT !.memory = SetCell(m.memory, m.ptr, Cell(m.memory, m.ptr) - 1) ]

\* Out => output.write(&[self.memory[ptr]])?   The byte count write returns is
\* dropped.  A "vec" writer (the tests' Vec<u8>) takes every byte.  For an
\* "open" writer e is what it does: "good" takes the byte, "full" takes none
\* and returns Ok(0) from now on, "error" returns Err.
Out(m, e) ==
  IF ~InBounds(m.ptr) THEN Panic(m)
  ELSE IF m.sink = "full" THEN m
  ELSE CASE e = "good" \/ m.sink = "vec" ->
              [ m EXCEPT !.output = Append(m.output, Cell(m.memory, m.ptr)) ]
         [] e = "full" -> [ m EXCEPT !.sink = "full" ]
         [] OTHER -> IoErr(m)

\* A variant of the In arm that stores 0 at the end of the input.
InZeroFillAtEof(m, e) ==
  IF m.taken >= Len(input)
  THEN IF ~InBounds(m.ptr) THEN Panic(m)
       ELSE [ m EXCEPT !.memory = SetCell(m.memory, m.ptr, 0) ]
  ELSE IF e = "error" THEN IoErr(m)
  ELSE IF ~InBounds(m.ptr) THEN Panic([ m EXCEPT !.taken = m.taken + 1 ])
  ELSE [ m EXCEPT !.taken = m.taken + 1,
                  !.memory = SetCell(m.memory, m.ptr, At(input, m.taken)) ]

\* A variant of In that stores the reader's next byte and leaves it unread.
InPeek(m, e) ==
  IF m.taken >= Len(input) THEN m
  ELSE IF e = "error" THEN IoErr(m)
  ELSE IF ~InBounds(m.ptr) THEN Panic(m)
  ELSE [ m EXCEPT !.memory = SetCell(m.memory, m.ptr, At(input, m.taken)) ]

\* In => match input.next() { Some(res) => self.memory[ptr] = res?, None => {} }
\* e = "error" is a read that fails; otherwise the reader yields its next byte.
In(m, e) ==
  IF m.taken >= Len(input) THEN m
  ELSE IF e = "error" THEN IoErr(m)
  ELSE IF ~InBounds(m.ptr) THEN Panic([ m EXCEPT !.taken = m.taken + 1 ])
  ELSE [ m EXCEPT !.taken = m.taken + 1,
                  !.memory = SetCell(m.memory, m.ptr, At(input, m.taken)) ]

\* A variant of the jump that lands on the partner itself, not past it.
JumpToPartner(m) ==
  IF m.pc \in DOMAIN m.jmptable
  THEN [ m EXCEPT !.pc = m.jmptable[m.pc] - 1 ]
  ELSE Panic(m)

\* pc = self.jmptable[&pc]: indexing a HashMap panics on a missing key.
Jump(m) ==
  IF m.pc \in DOMAIN m.jmptable THEN [ m EXCEPT !.pc = m.jmptable[m.pc] ] ELSE Panic(m)

\* JmpFwd => if self.memory[ptr] == 0 { pc = self.jmptable[&pc] }
JmpFwd(m) ==
  IF ~InBounds(m.ptr) THEN Panic(m)
  ELSE IF Cell(m.memory, m.ptr) = 0 THEN Jump(m) ELSE m

\* JmpBack => if self.memory[ptr] != 0 { pc = self.jmptable[&pc] }
JmpBack(m) ==
  IF ~InBounds(m.ptr) THEN Panic(m)
  ELSE IF Cell(m.memory, m.ptr) # 0 THEN Jump(m) ELSE m

(***************************************************************************)
(* Program::debug.  The slices commands[pc-3..pc], memory[ptr-3..ptr] and  *)
(* memory[ptr+1..min(ptr+3, len)] panic when their start is past their     *)
(* end or their end past the vector (pc - 3 and ptr - 3 overflow below 3:  *)
(* a panic with overflow checks, a start past the end without).            *)
(***************************************************************************)
debug(m) ==
  IF m.pc < 3 \/ m.ptr < 3 \/ m.ptr >= TapeLen
  THEN Panic(m)
  ELSE [ m EXCEPT !.diag =
           [ pc       |-> m.pc,
             ptr      |-> m.ptr,
             pre_com  |-> Slice(m.commands, m.pc - 3, m.pc),
             com      |-> At(m.commands, m.pc),
             post_com |-> Slice(m.commands, m.pc + 1, Min(m.pc + 3, Len(m.commands))),
             pre_mem  |-> [ k \in 1..3 |-> Cell(m.memory, m.ptr - 4 + k) ],
             mem      |-> Cell(m.memory, m.ptr),
             post_mem |-> [ k \in 1..(Min(m.ptr + 3, TapeLen) - (m.ptr + 1)) |->
                              Cell(m.memory, m.ptr + k) ] ] ]

\* pc += 1; if pc >= self.commands.len() { break }  and then Ok(())
Advance(m) ==
  [ m EXCEPT !.pc = m.pc + 1,
             !.status = IF m.pc + 1 >= Len(m.commands) THEN "ok" ELSE "running" ]

\* The match on self.commands[pc] (indexing past the end panics).
Arm(m, e) ==
  IF m.pc >= Len(m.commands) THEN Panic(m)
  ELSE CASE At(m.commands, m.pc) = "Right"   -> Right(m)
         [] At(m.commands, m.pc) = "Left"    -> Left(m)
         [] At(m.commands, m.pc) = "Inc"     -> Inc(m)
         [] At(m.commands, m.pc) = "Dec"     -> Dec(m)
         [] At(m.commands, m.pc) = "Out"     -> Out(m, e)
         [] At(m.commands, m.pc) = "In"      -> In(m, e)
         [] At(m.commands, m.pc) = "JmpFwd"  -> JmpFwd(m)
         [] At(m.commands, m.pc) = "JmpBack" -> JmpBack(m)
         [] OTHER                            -> debug(m)

\* One turn of run's loop.
Step(m, e) ==
  LET n == Arm(m, e) IN IF n.status = "running" THEN Advance(n) ELSE n

\* A variant of the entry that clears the tape for every run.
EnterOnClearedTape(m) ==
  [ m EXCEPT !.ptr = 0, !.pc = 0, !.status = "running", !.memory = ZeroTape ]

\* Entering run: let mut ptr = 0; let mut pc = 0;
Enter(m) == [ m EXCEPT !.ptr = 0, !.pc = 0, !.status = "running" ]

(***************************************************************************)
(* The state machine.  The Program under test is held in the variables;    *)
(* twin is the Program that test::hello_world_comments builds beside it,   *)
(* from the same text with the comment characters deleted, and runs on     *)
(* the same input against a writer that behaves the same.                  *)
(***************************************************************************)
Strip(text, dbg) ==
  SelectSeq(text, LAMBDA c : c \in CommandChars \/ (dbg /\ c = "#"))

Me ==
  [ status |-> status, commands |-> commands, jmptable |-> jmptable,
    memory |-> memory, ptr |-> ptr, pc |-> pc, taken |-> taken,
    output |-> output, sink |-> sink, diag |-> diag ]

Put(n) ==
  /\ status' = n.status
  /\ commands' = n.commands
  /\ jmptable' = n.jmptable
  /\ memory' = n.memory
  /\ ptr' = n.ptr
  /\ pc' = n.pc
  /\ taken' = n.taken
  /\ output' = n.output
  /\ sink' = n.sink
  /\ diag' = n.diag

Fresh ==
  [ status |-> "source", commands |-> << >>, jmptable |-> << >>,
    memory |-> ZeroTape, ptr |-> 0, pc |-> 0, taken |-> 0,
    output |-> << >>, sink |-> "open", diag |-> << >> ]

Before(op) ==
  [ op |-> op, pc |-> pc, ptr |-> ptr, memory |-> memory, output |-> output,
    taken |-> taken, sink |-> sink ]

\* Program::compile(input, debug_pound)
Compiled(m, text) == [ m EXCEPT !.commands = compile(text, debug_pound), !.status = "compiled" ]

\* Program::new(commands)
Constructed(m) ==
  LET r == new(m.commands)
  IN  IF r.panic THEN Panic(m)
      ELSE [ m EXCEPT !.jmptable = r.table, !.memory = ZeroTape, !.status = "constructed" ]

CanRun(m) == m.status \in { "constructed", "ok", "err" }
Blocked(m) ==
  /\ m.pc < Len(m.commands)
  /\ At(m.commands, m.pc) = "Out"
  /\ Len(m.output) >= MaxOut

InitProgram ==
  /\ overflow_checks \in BOOLEAN
  /\ status = "source"
  /\ commands = << >>
  /\ jmptable = << >>
  /\ memory = ZeroTape
  /\ ptr = 0
  /\ pc = 0
  /\ taken = 0
  /\ output = << >>
  /\ diag = << >>
  /\ runs = 0
  /\ last = Before("none")
  /\ twin = [ Fresh EXCEPT !.sink = sink ]

\* debug_pound matters only to a text with a '#', the input only to one with a ','.
Uses(text, c) == \E i \in 1..Len(text) : text[i] = c

InitSmall ==
  /\ \/ /\ src \in Texts(MaxSrcLen)
        /\ calls = 1
        /\ sink = "open"
     \/ /\ src \in Texts(MaxRerunLen)
        /\ calls = MaxRuns
        /\ sink = "open"
     \/ /\ src \in BracketTexts \cup TestSources
        /\ calls = MaxRuns
        /\ sink = "vec"
  /\ debug_pound \in IF Uses(src, "#") THEN BOOLEAN ELSE { FALSE }
  /\ input \in IF Uses(src, ",") THEN Streams(MaxInput) ELSE { << >> }

Init == InitSmall /\ InitProgram

InitTape ==
  /\ \/ InitSmall
     \/ /\ src \in TapeSources
        /\ calls = 1
        /\ debug_pound = FALSE
        /\ input = << >>
        /\ sink = "vec"
  /\ InitProgram

Compile ==
  /\ status = "source"
  /\ Put(Compiled(Me, src))
  /\ twin' = Compiled(twin, Strip(src, debug_pound))
  /\ last' = Before("compile")
  /\ UNCHANGED << src, debug_pound, overflow_checks, input, calls, runs >>

New ==
  /\ status = "compiled"
  /\ Put(Constructed(Me))
  /\ twin' = IF twin.status = "compiled" THEN Constructed(twin) ELSE twin
  /\ last' = Before("new")
  /\ UNCHANGED << src, debug_pound, overflow_checks, input, calls, runs >>

Run ==
  /\ CanRun(Me)
  /\ runs < calls
  /\ Put(Enter(Me))
  /\ twin' = IF CanRun(twin) THEN Enter(twin) ELSE twin
  /\ runs' = runs + 1
  /\ last' = Before("run")
  /\ UNCHANGED << src, debug_pound, overflow_checks, input, calls >>

\* One turn of the loop of both Programs, the writer and the reader answering e.
Turn(op, e) ==
  /\ status = "running"
  /\ ~Blocked(Me)
  /\ Put(Step(Me, e))
  /\ twin' = IF twin.status = "running" /\ ~Blocked(twin) THEN Step(twin, e) ELSE twin
  /\ last' = Before(op)
  /\ UNCHANGED << src, debug_pound, overflow_checks, input, calls, runs >>

Fetch(op) == pc < Len(commands) /\ At(commands, pc) = op

FetchPanic == pc >= Len(commands) /\ Turn("fetch", "good")
StepRight == Fetch("Right") /\ Turn("Right", "good")
StepLeft == Fetch("Left") /\ Turn("Left", "good")
StepInc == Fetch("Inc") /\ Turn("Inc", "good")
StepDec == Fetch("Dec") /\ Turn("Dec", "good")
StepOut == Fetch("Out") /\ \E e \in { "good", "full", "error" } : Turn("Out", e)
StepIn == Fetch("In") /\ \E e \in { "good", "error" } : Turn("In", e)
StepJmpFwd == Fetch("JmpFwd") /\ Turn("JmpFwd", "good")
StepJmpBack == Fetch("JmpBack") /\ Turn("JmpBack", "good")
StepDebug == Fetch("Debug") /\ Turn("Debug", "good")

Next ==
  \/ Compile
  \/ New
  \/ Run
  \/ FetchPanic
  \/ StepRight
  \/ StepLeft
  \/ StepInc
  \/ StepDec
  \/ StepOut
  \/ StepIn
  \/ StepJmpFwd
  \/ StepJmpBack
  \/ StepDebug

Spec == Init /\ [][Next]_vars
SpecTape == InitTape /\ [][Next]_vars

(***************************************************************************)
(* Vocabulary of the properties.                                           *)
(***************************************************************************)
Commands ==
  { "Right", "Left", "Inc", "Dec", "Out", "In", "JmpFwd", "JmpBack", "Debug" }

\* run executed an instruction in its latest turn; last holds the state before it.
Executed(op) == last.op = op
\* ... and the turn ran to its end (no panic, no io::Error).
Completed == status \in { "running", "ok" }
\* Program::new returned a Program.
Built == status \in { "constructed", "running", "ok", "err" } \/ runs > 0

\* Bracket depth: for the commands lo+1 .. hi, net is the number of JmpFwd minus
\* the number of JmpBack, low the least such difference over their prefixes.
Joined(a, b) == [ net |-> a.net + b.net, low |-> Min(a.low, a.net + b.low) ]

RECURSIVE Depth(_, _, _)
Depth(coms, lo, hi) ==
  IF hi <= lo THEN [ net |-> 0, low |-> 0 ]
  ELSE IF hi = lo + 1
  THEN CASE coms[hi] = "JmpFwd" -> [ net |-> 1, low |-> 0 ]
         [] coms[hi] = "JmpBack" -> [ net |-> -1, low |-> -1 ]
         [] OTHER -> [ net |-> 0, low |-> 0 ]
  ELSE Joined(Depth(coms, lo, (lo + hi) \div 2), Depth(coms, (lo + hi) \div 2, hi))

\* Some JmpBack has no JmpFwd pending; some JmpFwd is never closed; neither.
UnmatchedClose(coms) == Depth(coms, 0, Len(coms)).low < 0
UnmatchedOpen(coms) ==
  ~UnmatchedClose(coms) /\ Depth(coms, 0, Len(coms)).net > 0
WellNested(d) == d.low >= 0 /\ d.net = 0
Balanced(coms) == WellNested(Depth(coms, 0, Len(coms)))

JumpTaken ==
  \/ Executed("JmpFwd") /\ Cell(last.memory, last.ptr) = 0
  \/ Executed("JmpBack") /\ Cell(last.memory, last.ptr) # 0

(***************************************************************************)
(* C1.  For every cell value and every in-bounds ptr, Increment sets       *)
(* tape[ptr] to (v+1) mod 256 and Decrement to (v-1) mod 256, and neither  *)
(* ever faults.                                                            *)
(***************************************************************************)
C1_CellArithmeticWraps ==
  /\ (Executed("Inc") /\ InBounds(last.ptr)) =>
       /\ Completed
       /\ Cell(memory, last.ptr) = (Cell(last.memory, last.ptr) + 1) % ByteMod
  /\ (Executed("Dec") /\ InBounds(last.ptr)) =>
       /\ Completed
       /\ Cell(memory, last.ptr) = (Cell(last.memory, last.ptr) + ByteMod - 1) % ByteMod

(***************************************************************************)
(* C2.  When a JumpIfNonZero is scanned while no JumpIfZero is pending,    *)
(* Program::new reports the fault to its caller instead of crashing, and   *)
(* yields no Program.                                                      *)
(***************************************************************************)
C2_UnmatchedCloseReported ==
  (Executed("new") /\ UnmatchedClose(commands)) => (status # "panic" /\ ~Built)

(***************************************************************************)
(* C3.  No Program whose instruction sequence contains a JumpIfZero        *)
(* without a jump-table entry is ever returned by Program::new.            *)
(***************************************************************************)
C3_UnmatchedOpenRejected ==
  Built => \A i \in 0..(Len(commands) - 1) :
             At(commands, i) = "JmpFwd" => i \in DOMAIN jmptable

(***************************************************************************)
(* C4.  For every well-formed instruction sequence the jump table built by *)
(* Program::new is symmetric: each key's target is a key that maps back.   *)
(***************************************************************************)
C4_JumpTableSymmetric ==
  (Built /\ Balanced(commands)) =>
    \A i \in DOMAIN jmptable :
      /\ jmptable[i] \in DOMAIN jmptable
      /\ jmptable[jmptable[i]] = i

\* A Program with a loop nested in a loop was built.
C4_Witness ==
  /\ Built
  /\ Balanced(commands)
  /\ \E i, j \in DOMAIN jmptable : i < j /\ jmptable[j] < jmptable[i] /\ j < jmptable[j]

(***************************************************************************)
(* C5.  On a well-formed program a taken jump is followed by the           *)
(* instruction at table[pc] + 1, every other instruction by the one at     *)
(* pc + 1; a jump changes neither ptr nor the tape, and with ptr on the    *)
(* tape it does not fault.                                                 *)
(***************************************************************************)
C5_JumpLandsPastPartner ==
  (last.op \in Commands /\ Balanced(commands)) =>
    /\ (Completed /\ JumpTaken) => pc = jmptable[last.pc] + 1
    /\ (Completed /\ ~JumpTaken) => pc = last.pc + 1
    /\ last.op \in { "JmpFwd", "JmpBack" } =>
         /\ ptr = last.ptr
         /\ memory = last.memory
         /\ InBounds(last.ptr) => Completed

\* A JumpIfNonZero was taken, back to the instruction after its JumpIfZero.
C5_Witness ==
  /\ Executed("JmpBack")
  /\ Balanced(commands)
  /\ JumpTaken
  /\ status = "running"
  /\ pc = jmptable[last.pc] + 1
  /\ pc <= last.pc

(***************************************************************************)
(* C6.  MoveRight faults, at that very instruction, exactly when the       *)
(* resulting ptr would be >= 30,000.                                       *)
(***************************************************************************)
C6_MoveRightFaultsAtTapeEnd ==
  (Executed("Right") /\ last.ptr >= 0) =>
    (status = "panic" <=> last.ptr + 1 >= TapeLen)

(***************************************************************************)
(* C7.  MoveLeft at ptr == 0 faults and aborts run at that instruction:    *)
(* ptr never wraps around to a large index and no tape cell changes.       *)
(***************************************************************************)
C7_MoveLeftAtZeroFaults ==
  (Executed("Left") /\ last.ptr = 0) =>
    /\ status = "panic"
    /\ ptr = 0
    /\ memory = last.memory

(***************************************************************************)
(* C8.  Input at end of stream is a no-op: the tape and ptr keep their     *)
(* values, nothing is taken, no fault is raised and run goes on at pc + 1; *)
(* so Input;Output on an empty input, with a writer that takes the byte,   *)
(* writes the single byte 0 and returns success.                           *)
(***************************************************************************)
C8_InputAtEofIsNoOp ==
  /\ (Executed("In") /\ last.taken >= Len(input)) =>
       /\ Completed
       /\ memory = last.memory
       /\ ptr = last.ptr
       /\ taken = last.taken
       /\ output = last.output
       /\ pc = last.pc + 1
  /\ ( /\ commands = << "In", "Out" >>
       /\ input = << >>
       /\ runs = 1
       /\ Executed("Out")
       /\ sink # "full"
       /\ status # "err" ) =>
       /\ status = "ok"
       /\ output = << 0 >>

\* `,.` ran on an empty input and wrote the byte 0.
C8_Witness ==
  /\ commands = << "In", "Out" >>
  /\ input = << >>
  /\ runs = 1
  /\ Executed("Out")
  /\ status = "ok"
  /\ output = << 0 >>

(***************************************************************************)
(* C9.  Every executed Output either appends exactly one byte, tape[ptr],  *)
(* to the output stream or makes run return an IOFault: run never goes on  *)
(* to success with a byte the writer did not take.                         *)
(***************************************************************************)
C9_OutputNeverLost ==
  (Executed("Out") /\ Completed) =>
    output = Append(last.output, Cell(last.memory, last.ptr))

(***************************************************************************)
(* C10.  Comment transparency: the Program built from a text and the one   *)
(* built from the same text without its comment characters are equal       *)
(* (commands, jump table, tape), fare alike in construction and in run,    *)
(* write the same output on the same input, and are equal after the runs.  *)
(***************************************************************************)
C10_CommentTransparency ==
  status # "source" =>
    /\ twin.commands = commands
    /\ twin.jmptable = jmptable
    /\ twin.memory = memory
    /\ twin.status = status
    /\ twin.output = output

\* A text with comment characters was compiled, built and run to its end, output written.
C10_Witness ==
  /\ src # Strip(src, debug_pound)
  /\ status = "ok"
  /\ twin.status = "ok"
  /\ output # << >>
  /\ twin.output = output
  /\ twin.memory = memory

(***************************************************************************)
(* C11.  compile returns exactly the subsequence of the source characters  *)
(* that are instructions ('>', '<', '+', '-', '.', ',', '[', ']', and '#'  *)
(* if and only if debug is enabled), each mapped to its tag, in source     *)
(* order; with debug disabled no DebugPrint appears in the result.         *)
(***************************************************************************)
Tag ==
  ">" :> "Right" @@ "<" :> "Left" @@ "+" :> "Inc" @@ "-" :> "Dec" @@
  "." :> "Out" @@ "," :> "In" @@ "[" :> "JmpFwd" @@ "]" :> "JmpBack" @@
  "#" :> "Debug"

Tagged(text) == [ i \in 1..Len(text) |-> Tag[text[i]] ]

C11_CompileIsTaggedSubsequence ==
  status # "source" =>
    /\ commands = Tagged(Strip(src, debug_pound))
    /\ ~debug_pound => \A i \in 1..Len(commands) : commands[i] # "Debug"

\* `#+.` was compiled with debug enabled.
C11_Witness ==
  /\ src = << "#", "+", "." >>
  /\ debug_pound
  /\ status = "compiled"
  /\ commands = << "Debug", "Inc", "Out" >>

(***************************************************************************)
(* C12.  run executes an instruction only while pc < length(instructions)  *)
(* and returns success as soon as pc equals it; on the empty sequence it   *)
(* returns success with no instruction executed, nothing written and the   *)
(* tape unchanged.                                                         *)
(***************************************************************************)
C12_RunStopsAtLength ==
  /\ last.op # "fetch"
  /\ (last.op \in Commands /\ Completed) => (status = "ok" <=> pc = Len(commands))
  /\ (runs > 0 /\ commands = << >> /\ last.op # "run") =>
       /\ status = "ok"
       /\ output = << >>
       /\ memory = ZeroTape

(***************************************************************************)
(* C13.  Every call of run on a Program starts with pc = 0 and ptr = 0 and *)
(* with the tape exactly as the call before left it; the first call on a   *)
(* fresh Program starts on an all-zero tape.  (So a second run can write   *)
(* output that differs from the first: the witness.)                       *)
(***************************************************************************)
C13_TapePersistsAcrossRuns ==
  Executed("run") =>
    /\ status = "running"
    /\ pc = 0
    /\ ptr = 0
    /\ memory = last.memory
    /\ runs = 1 => memory = ZeroTape

\* `+.` was run twice on one Program and wrote 1, then 2.
C13_Witness ==
  /\ commands = << "Inc", "Out" >>
  /\ runs = 2
  /\ status = "ok"
  /\ output = << 1, 2 >>

(***************************************************************************)
(* C14.  DebugPrint never faults, for every pc of the instruction sequence *)
(* and every ptr on the tape: the context windows are clipped at the ends  *)
(* of the sequence and of the tape.                                        *)
(***************************************************************************)
C14_DebugNeverFaults ==
  (Executed("Debug") /\ InBounds(last.ptr)) => Completed

(***************************************************************************)
(* C16.  For every well-formed instruction sequence the keys of the jump   *)
(* table are exactly the indices of JumpIfZero and JumpIfNonZero, and each *)
(* JumpIfZero at i is paired with a JumpIfNonZero at j > i such that the   *)
(* instructions strictly between i and j are balanced (LIFO matching; no   *)
(* two pairs cross).                                                       *)
(***************************************************************************)
Brackets(coms) ==
  { i \in 0..(Len(coms) - 1) : At(coms, i) \in { "JmpFwd", "JmpBack" } }

C16_LifoMatching ==
  (Built /\ Balanced(commands)) =>
    /\ DOMAIN jmptable = Brackets(commands)
    /\ \A i \in DOMAIN jmptable :
         At(commands, i) = "JmpFwd" =>
           /\ jmptable[i] > i
           /\ At(commands, jmptable[i]) = "JmpBack"
           /\ WellNested(Depth(commands, i + 1, jmptable[i]))
    /\ \A i, j \in DOMAIN jmptable :
         (i < j /\ j < jmptable[i]) => jmptable[j] < jmptable[i]

\* A Program was built with a loop inside a loop and a loop after it.
C16_Witness ==
  /\ Built
  /\ Balanced(commands)
  /\ \E i, j, k \in DOMAIN jmptable :
       /\ i < j
       /\ j < jmptable[j]
       /\ jmptable[j] < jmptable[i]
       /\ jmptable[i] < k
       /\ k < jmptable[k]

(***************************************************************************)
(* C17.  An Input instruction executed while input remains takes exactly   *)
(* one byte from the reader, the next one in stream order (the k-th        *)
(* executed Input takes the k-th byte), and stores it in the cell at ptr,  *)
(* changing no other cell; no other instruction takes input.               *)
(***************************************************************************)
C17_InputTakesNextByte ==
  /\ (Executed("In") /\ last.taken < Len(input) /\ status # "err") =>
       /\ taken = last.taken + 1
       /\ InBounds(last.ptr) =>
            /\ Completed
            /\ ptr = last.ptr
            /\ Cell(memory, ptr) = input[taken]
            /\ \A p \in (DOMAIN memory \cup DOMAIN last.memory) \ { ptr } :
                 Cell(memory, p) = Cell(last.memory, p)
  /\ ~Executed("In") => taken = last.taken
  /\ taken <= Len(input)

\* The second Input of a run has stored the second byte of the stream,
\* beside the first byte in the cell before it.
C17_Witness ==
  /\ Executed("In")
  /\ Completed
  /\ runs = 1
  /\ last.taken = 1
  /\ taken = 2
  /\ ptr = 1
  /\ input = << 1, 255 >>
  /\ Cell(memory, 0) = 1
  /\ Cell(memory, 1) = 255

(***************************************************************************)
(* C18.  A DebugPrint at (pc, ptr) that completes has reported exactly     *)
(* min(3, pc) instructions before pc, min(3, length - 1 - pc) instructions *)
(* after pc, min(3, ptr) cells before ptr and min(3, tape length - 1 -     *)
(* ptr) cells after ptr.                                                   *)
(***************************************************************************)
C18_DebugContextWindows ==
  (Executed("Debug") /\ Completed) =>
    /\ diag.pc = last.pc
    /\ diag.ptr = last.ptr
    /\ Len(diag.pre_com) = Min(3, last.pc)
    /\ Len(diag.post_com) = Min(3, Len(commands) - 1 - last.pc)
    /\ Len(diag.pre_mem) = Min(3, last.ptr)
    /\ Len(diag.post_mem) = Min(3, TapeLen - 1 - last.ptr)

(***************************************************************************)
(* C19.  A DebugPrint step is read-only: it completes, leaves every tape   *)
(* cell, ptr, the position in the input stream and the bytes written to    *)
(* the output unchanged, and only advances pc by 1.                        *)
(***************************************************************************)
C19_DebugIsReadOnly ==
  (Executed("Debug") /\ InBounds(last.ptr)) =>
    /\ Completed
    /\ pc = last.pc + 1
    /\ memory = last.memory
    /\ ptr = last.ptr
    /\ taken = last.taken
    /\ output = last.output

(***************************************************************************)
(* C20.  In a non-empty instruction sequence without JumpIfZero,           *)
(* JumpIfNonZero and DebugPrint, whose pointer stays on the tape and whose *)
(* streams do not fail, every step completes and advances pc by exactly 1, *)
(* and run returns success exactly when pc reaches the length: the         *)
(* instructions are executed once each, in source order.                   *)
(***************************************************************************)
StraightLine(coms) ==
  /\ coms # << >>
  /\ \A i \in 1..Len(coms) : coms[i] \notin { "JmpFwd", "JmpBack", "Debug" }

PointerStays ==
  /\ InBounds(last.ptr)
  /\ last.op = "Right" => InBounds(last.ptr + 1)
  /\ last.op = "Left" => InBounds(last.ptr - 1)

C20_StraightLineTerminates ==
  (StraightLine(commands) /\ last.op \in Commands /\ PointerStays /\ status # "err") =>
    /\ Completed
    /\ pc = last.pc + 1
    /\ status = "ok" <=> pc = Len(commands)
====
